---- MODULE Spec2Model ----
(***************************************************************************)
(* GitLab Tag Deployment Tracker (src/main.py).                            *)
(*                                                                         *)
(* One run of main(): connect, print the CSV header, resolve the project   *)
(* list, and for every project select the production environments, gather  *)
(* one (name, deploy timestamp, tag timestamp) triple per environment and  *)
(* print one CSV row.  The GitLab server is an external collaborator: each *)
(* API call answers with a value drawn from a bounded set, or raises.      *)
(*                                                                         *)
(* Spec is the run of main().  SelectSpec and TagSpec apply the two pure   *)
(* helpers get_production_environments and get_tag_creation_date to every  *)
(* answer of a bounded set.                                                *)
(*                                                                         *)
(* Python strings are sequences of one-character strings, so that lower(), *)
(* the substring test, the regular expression and ','.join are computed.   *)
(* An Optional value is a record with a `some' flag.                       *)
(***************************************************************************)
EXTENDS Integers, Sequences, FiniteSets

VARIABLES
    pc,           \* position of main(): connect, header, resolve, loop, env, row, done, exit
    args,         \* parsed command line: [project : BOOLEAN, tag : Optional string]
    projects,     \* main: the resolved project list
    pidx,         \* main: index of the project the outer loop is at
    prod_envs,    \* main: the matched environments of the current project
    eidx,         \* main: index of the environment the inner loop is at
    env_data,     \* main: the triples gathered for the current project
    lookup,       \* the calls the last get_deployment_info made, and their answers
    outcome,      \* per triple of env_data, how its data was obtained
    matched,      \* per project the loop has entered, the number of matched environments
    out,          \* standard output, one entry per printed line
    exitCode,     \* process exit status, -1 while running
    envsSeen,     \* number of environment records the server has returned so far
    environments, \* get_production_environments: the answer of the environment listing
    tag_name,     \* get_tag_creation_date: the requested name
    tags,         \* get_tag_creation_date: the answer of the tag search
    tag_created_at \* get_tag_creation_date: the value returned

vars == <<pc, args, projects, pidx, prod_envs, eidx, env_data,
          lookup, outcome, matched, out, exitCode, envsSeen,
          environments, tag_name, tags, tag_created_at>>

helperVars == <<environments, tag_name, tags, tag_created_at>>

\* ---------------------------------------------------------------- bounds
MaxProjects == 2    \* projects a listing returns
MaxEnvs     == 2    \* environments the server holds, over all projects
MaxListing  == 3    \* environments of one listing given to the selector alone
MaxTags     == 2    \* candidates a tag search returns

\* ---------------------------------------------------------------- strings
Upper == <<"A","B","C","D","E","F","G","H","I","J","K","L","M",
           "N","O","P","Q","R","S","T","U","V","W","X","Y","Z">>
Lowercase == <<"a","b","c","d","e","f","g","h","i","j","k","l","m",
               "n","o","p","q","r","s","t","u","v","w","x","y","z">>
Digits == {"0","1","2","3","4","5","6","7","8","9"}

LowerChar(c) ==
    IF \E i \in 1..26 : Upper[i] = c
    THEN Lowercase[CHOOSE i \in 1..26 : Upper[i] = c]
    ELSE c

\* str.lower()
Lower(s) == [i \in 1..Len(s) |-> LowerChar(s[i])]

\* needle in s
Contains(needle, s) ==
    \E k \in 0..(Len(s) - Len(needle)) : SubSeq(s, k + 1, k + Len(needle)) = needle

PRODUCTION == <<"p","r","o","d","u","c","t","i","o","n">>

None == [some |-> FALSE, val |-> <<>>]
Some(v) == [some |-> TRUE, val |-> v]

\* ---------------------------------------------------------------- the server's answers
\* Environment names (GitLab admits letters, digits, space and - _ / $ { } .).
EnvNames == {
    PRODUCTION,
    <<"E","U","-","P","r","o","d","u","c","t","i","o","n">>,
    <<"P","R","O","D","U","C","T","I","O","N","/","2">>,
    <<"s","t","a","g","i","n","g">>,
    <<"p","r","o","d","u","c","t">> }

\* Project and group names (GitLab admits letters, digits, space and _ . + -).
\* The server's i-th project; every second one has no namespace attribute.
ProjectNames == << <<"a","p","i">>, <<"w","e","b">>, <<"o","p","s">>, <<"d","o","c">> >>
ProjectAt(i) ==
    [name |-> ProjectNames[i],
     namespace |-> IF i % 2 = 1 THEN Some(<<"g","r","p">>) ELSE None]

ProjectPool == { ProjectAt(i) : i \in 1..Len(ProjectNames) }

Injective(s) == \A i, j \in 1..Len(s) : i # j => s[i] # s[j]

SeqsUpTo(S, n) == UNION { [1..k -> S] : k \in 0..n }

\* gl.projects.list(all=True): the projects the token can see, in the server's order
ProjectLists == { [i \in 1..n |-> ProjectAt(i)] : n \in 0..MaxProjects }

\* An environment listing: names are unique inside a project, the id is the
\* server's own, here the position in the listing.
EnvLists(pool, n) ==
    { [i \in 1..Len(names) |-> [id |-> i, name |-> names[i]]] :
        names \in { s \in SeqsUpTo(pool, n) : Injective(s) } }

Error == "error"
Ok == "ok"

EnvResponses(pool, n) ==
    { [kind |-> Error, list |-> <<>>] }
    \cup { [kind |-> Ok, list |-> l] : l \in EnvLists(pool, n) }

\* The names the listings of a whole run are drawn from.
RunEnvNames == {
    PRODUCTION,
    <<"E","U","-","P","r","o","d","u","c","t","i","o","n">>,
    <<"s","t","a","g","i","n","g">> }

Refs == { <<"v","1">>, <<"v","2">> }
DeployTimes == { <<"d","1">> }

NoDeployment == [some |-> FALSE, created_at |-> <<>>, ref |-> <<>>]
Deployments == { [some |-> TRUE, created_at |-> t, ref |-> r] : t \in DeployTimes, r \in Refs }

\* project.environments.get(id): raises, or an environment with its last_deployment
DeployResponses ==
    { [kind |-> Error, last_deployment |-> NoDeployment] }
    \cup { [kind |-> Ok, last_deployment |-> d] : d \in Deployments \cup {NoDeployment} }

\* Tags a search may return: the two deployed references, v1 also without a
\* commit record, and two tags whose names only contain or resemble "v1".
TagPool == {
    [name |-> <<"v","1">>, commit |-> Some(<<"t","1">>)],
    [name |-> <<"v","1">>, commit |-> None],
    [name |-> <<"v","2">>, commit |-> Some(<<"t","2">>)],
    [name |-> <<"v","1","0">>, commit |-> Some(<<"t","1","0">>)],
    [name |-> <<"V","1">>, commit |-> Some(<<"T","1">>)] }

UniqueNames(s) == \A i, j \in 1..Len(s) : i # j => s[i].name # s[j].name

TagResponses ==
    { [kind |-> Error, list |-> <<>>] }
    \cup { [kind |-> Ok, list |-> l] :
              l \in { s \in SeqsUpTo(TagPool, MaxTags) : UniqueNames(s) } }

\* project.tags.list(search=name) on a server: the search is by substring, so
\* every tag returned contains the searched name.
SearchResponses(name) ==
    { r \in TagResponses : \A i \in 1..Len(r.list) : Contains(name, r.list[i].name) }

NoSearch == [kind |-> Ok, list |-> <<>>]

TagArgs == { None,
             Some(<<"v","1",".","2",".","3">>),
             Some(<<"1",".","2",".","3">>) }

\* ---------------------------------------------------------------- output lines
Line(kind, what, text) == [kind |-> kind, what |-> what, text |-> text]
ErrorLine(what) == Line("error", what, <<>>)
NoticeLine == Line("notice", "no production environments", <<>>)
HeaderLine == Line("header", "", <<>>)
RowLine(text) == Line("row", "", text)

\* ---------------------------------------------------------------- helpers of main.py
\* Variant: the name is compared without lower-casing it.
IsProduction_CaseSensitive(env) == Contains(PRODUCTION, env.name)

IsProduction(env) == Contains(PRODUCTION, Lower(env.name))

\* get_production_environments: the matched list and the lines it prints
get_production_environments(resp) ==
    IF resp.kind = Error
    THEN [ret |-> <<>>, out |-> <<ErrorLine("environments")>>]
    ELSE LET production_envs == SelectSeq(resp.list, IsProduction)
         IN  [ret |-> production_envs,
              out |-> IF production_envs = <<>> THEN <<NoticeLine>> ELSE <<>>]

\* get_environment_last_deployment
get_environment_last_deployment(resp) ==
    IF resp.kind = Error
    THEN [ret |-> NoDeployment, out |-> <<ErrorLine("last deployment")>>]
    ELSE [ret |-> resp.last_deployment, out |-> <<>>]

\* Variant: the candidate is accepted when its name contains the requested one.
get_tag_creation_date_Substring(resp, name) ==
    IF resp.kind = Error
    THEN [ret |-> None, out |-> <<ErrorLine("tag")>>]
    ELSE LET found == resp.list
             hits == { i \in 1..Len(found) : Contains(name, found[i].name) }
         IN  IF hits = {}
             THEN [ret |-> None, out |-> <<>>]
             ELSE LET tag == found[CHOOSE i \in hits : \A j \in hits : i <= j]
                  IN  [ret |-> tag.commit, out |-> <<>>]

\* get_tag_creation_date
get_tag_creation_date(resp, name) ==
    IF resp.kind = Error
    THEN [ret |-> None, out |-> <<ErrorLine("tag")>>]
    ELSE LET found == resp.list
             hits == { i \in 1..Len(found) : found[i].name = name }
         IN  IF hits = {}
             THEN [ret |-> None, out |-> <<>>]
             ELSE LET tag == found[CHOOSE i \in hits : \A j \in hits : i <= j]
                  IN  [ret |-> tag.commit, out |-> <<>>]

\* is_valid_tag_format: re.match(r'^v\d+\.\d+\.\d+$', tag); $ also matches
\* before one trailing newline.
AllDigits(s) == Len(s) >= 1 /\ \A i \in 1..Len(s) : s[i] \in Digits

is_valid_tag_format(tag) ==
    LET body == IF Len(tag) >= 1 /\ tag[Len(tag)] = "\n"
                THEN {tag, SubSeq(tag, 1, Len(tag) - 1)}
                ELSE {tag}
    IN  \E b \in body :
          /\ Len(b) >= 6
          /\ b[1] = "v"
          /\ \E i, j \in 3..Len(b) :
                /\ i < j
                /\ b[i] = "."
                /\ b[j] = "."
                /\ AllDigits(SubSeq(b, 2, i - 1))
                /\ AllDigits(SubSeq(b, i + 1, j - 1))
                /\ AllDigits(SubSeq(b, j + 1, Len(b)))

NoLookup == [dep |-> [kind |-> Ok, last_deployment |-> NoDeployment],
             issued |-> FALSE, tag_name |-> <<>>]

\* Variant: an absent tag timestamp is written as the text None.
get_deployment_info_NoneMarker(environment, dresp, tresp) ==
    LET result == [env_name |-> environment.name,
                   deploy_created_at |-> <<>>,
                   tag_created_at |-> <<"N","o","n","e">>]
        d == get_environment_last_deployment(dresp)
        deployment == d.ret
    IN  IF ~deployment.some
        THEN [ret |-> result, out |-> d.out,
              calls |-> [NoLookup EXCEPT !.dep = dresp],
              how |-> IF dresp.kind = Error THEN "deployment failed" ELSE "no deployment"]
        ELSE LET ref == deployment.ref
                 t == get_tag_creation_date(tresp, ref)
                 created == t.ret
                 truthy == created.some /\ created.val # <<>>
             IN  [ret |-> [result EXCEPT
                              !.deploy_created_at = deployment.created_at,
                              !.tag_created_at = IF truthy THEN created.val
                                                 ELSE <<"N","o","n","e">>],
                  out |-> d.out \o t.out,
                  calls |-> [dep |-> dresp, issued |-> TRUE, tag_name |-> ref],
                  how |-> IF tresp.kind = Error THEN "tag failed"
                          ELSE IF truthy THEN "tag found" ELSE "tag absent"]

\* Variant: the tag is looked up before the deployment is tested.
get_deployment_info_LooksUpFirst(environment, dresp, tresp) ==
    LET result == [env_name |-> environment.name,
                   deploy_created_at |-> <<>>,
                   tag_created_at |-> <<>>]
        d == get_environment_last_deployment(dresp)
        deployment == d.ret
        ref == deployment.ref
        t == get_tag_creation_date(tresp, ref)
        created == t.ret
        truthy == created.some /\ created.val # <<>>
    IN  [ret |-> [result EXCEPT
                     !.deploy_created_at = deployment.created_at,
                     !.tag_created_at = IF truthy THEN created.val ELSE <<>>],
         out |-> d.out \o t.out,
         calls |-> [dep |-> dresp, issued |-> TRUE, tag_name |-> ref],
         how |-> IF ~deployment.some
                 THEN (IF dresp.kind = Error THEN "deployment failed" ELSE "no deployment")
                 ELSE IF tresp.kind = Error THEN "tag failed"
                 ELSE IF truthy THEN "tag found" ELSE "tag absent"]

\* get_deployment_info: the triple, the lines printed, the calls made
get_deployment_info(environment, dresp, tresp) ==
    LET result == [env_name |-> environment.name,
                   deploy_created_at |-> <<>>,
                   tag_created_at |-> <<>>]
        d == get_environment_last_deployment(dresp)
        deployment == d.ret
    IN  IF ~deployment.some
        THEN [ret |-> result, out |-> d.out,
              calls |-> [NoLookup EXCEPT !.dep = dresp],
              how |-> IF dresp.kind = Error THEN "deployment failed" ELSE "no deployment"]
        ELSE LET ref == deployment.ref
                 t == get_tag_creation_date(tresp, ref)
                 created == t.ret
                 truthy == created.some /\ created.val # <<>>
             IN  [ret |-> [result EXCEPT
                              !.deploy_created_at = deployment.created_at,
                              !.tag_created_at = IF truthy THEN created.val ELSE <<>>],
                  out |-> d.out \o t.out,
                  calls |-> [dep |-> dresp, issued |-> TRUE, tag_name |-> ref],
                  how |-> IF tresp.kind = Error THEN "tag failed"
                          ELSE IF truthy THEN "tag found" ELSE "tag absent"]

\* ','.join(row)
RECURSIVE Join(_)
Join(row) ==
    IF Len(row) = 0 THEN <<>>
    ELSE IF Len(row) = 1 THEN row[1]
    ELSE row[1] \o <<",">> \o Join(Tail(row))

\* Variant: each triple is put in front of the ones gathered before.
RECURSIVE Flatten_Prepending(_)
Flatten_Prepending(env_list) ==
    IF env_list = <<>> THEN <<>>
    ELSE Flatten_Prepending(Tail(env_list))
         \o <<env_list[1].env_name, env_list[1].deploy_created_at, env_list[1].tag_created_at>>

RECURSIVE Flatten(_)
Flatten(env_list) ==
    IF env_list = <<>> THEN <<>>
    ELSE <<env_list[1].env_name, env_list[1].deploy_created_at, env_list[1].tag_created_at>>
         \o Flatten(Tail(env_list))

\* Variant: an empty group name is left out of the row.
format_csv_row_SkipsEmptyGroup(group, project_name, data) ==
    IF group = <<>>
    THEN Join(<<project_name>> \o Flatten(data))
    ELSE Join(<<group, project_name>> \o Flatten(data))

\* format_csv_row
format_csv_row(group, project_name, data) ==
    Join(<<group, project_name>> \o Flatten(data))

\* ---------------------------------------------------------------- main()
Init ==
    /\ pc = "connect"
    /\ args \in [project : BOOLEAN, tag : TagArgs]
    /\ projects = <<>>
    /\ pidx = 1
    /\ prod_envs = <<>>
    /\ eidx = 1
    /\ env_data = <<>>
    /\ lookup = NoLookup
    /\ outcome = <<>>
    /\ matched = <<>>
    /\ out = <<>>
    /\ exitCode = -1
    /\ envsSeen = 0
    /\ environments = [kind |-> Ok, list |-> <<>>]
    /\ tag_name = <<>>
    /\ tags = [kind |-> Ok, list |-> <<>>]
    /\ tag_created_at = None

\* connect_to_gitlab succeeds
Connect ==
    /\ pc = "connect"
    /\ pc' = "header"
    /\ UNCHANGED <<args, projects, pidx, prod_envs, eidx, env_data,
                   lookup, outcome, matched, out, exitCode, envsSeen, helperVars>>

\* connect_to_gitlab: gl.auth() raises
ConnectFails ==
    /\ pc = "connect"
    /\ out' = Append(out, ErrorLine("connect"))
    /\ exitCode' = 1
    /\ pc' = "exit"
    /\ UNCHANGED <<args, projects, pidx, prod_envs, eidx, env_data,
                   lookup, outcome, matched, envsSeen, helperVars>>

\* Variant: the header is not printed.
PrintHeader_Omitted ==
    /\ pc = "header"
    /\ pc' = "resolve"
    /\ UNCHANGED <<args, projects, pidx, prod_envs, eidx, env_data,
                   lookup, outcome, matched, out, exitCode, envsSeen, helperVars>>

PrintHeader ==
    /\ pc = "header"
    /\ out' = Append(out, HeaderLine)
    /\ pc' = "resolve"
    /\ UNCHANGED <<args, projects, pidx, prod_envs, eidx, env_data,
                   lookup, outcome, matched, exitCode, envsSeen, helperVars>>

\* projects = [get_project(gl, args.project)]
GetProject ==
    /\ pc = "resolve"
    /\ args.project
    /\ \E p \in ProjectPool : projects' = <<p>>
    /\ pc' = "loop"
    /\ UNCHANGED <<args, pidx, prod_envs, eidx, env_data,
                   lookup, outcome, matched, out, exitCode, envsSeen, helperVars>>

\* Variant: the error is printed and the run goes on without project.
GetProjectFails_GoesOn ==
    /\ pc = "resolve"
    /\ args.project
    /\ out' = Append(out, ErrorLine("project"))
    /\ pc' = "loop"
    /\ UNCHANGED <<args, projects, pidx, prod_envs, eidx, env_data,
                   lookup, outcome, matched, exitCode, envsSeen, helperVars>>

GetProjectFails ==
    /\ pc = "resolve"
    /\ args.project
    /\ out' = Append(out, ErrorLine("project"))
    /\ exitCode' = 1
    /\ pc' = "exit"
    /\ UNCHANGED <<args, projects, pidx, prod_envs, eidx, env_data,
                   lookup, outcome, matched, envsSeen, helperVars>>

\* projects = get_all_projects(gl)
GetAllProjects ==
    /\ pc = "resolve"
    /\ ~args.project
    /\ projects' \in ProjectLists
    /\ pc' = "loop"
    /\ UNCHANGED <<args, pidx, prod_envs, eidx, env_data,
                   lookup, outcome, matched, out, exitCode, envsSeen, helperVars>>

GetAllProjectsFails ==
    /\ pc = "resolve"
    /\ ~args.project
    /\ out' = Append(out, ErrorLine("projects"))
    /\ exitCode' = 1
    /\ pc' = "exit"
    /\ UNCHANGED <<args, projects, pidx, prod_envs, eidx, env_data,
                   lookup, outcome, matched, envsSeen, helperVars>>

\* Variant: a failure of the environment listing ends the run.
SelectEnvironments_FailureIsFatal ==
    /\ pc = "loop"
    /\ pidx <= Len(projects)
    /\ \E resp \in EnvResponses(RunEnvNames, MaxEnvs - envsSeen) :
         LET r == get_production_environments(resp)
         IN  /\ envsSeen' = envsSeen + Len(resp.list)
             /\ prod_envs' = r.ret
             /\ out' = out \o r.out
             /\ env_data' = <<>>
             /\ outcome' = <<>>
             /\ matched' = Append(matched, Len(r.ret))
             /\ eidx' = 1
             /\ IF resp.kind = Error
                THEN pidx' = pidx /\ pc' = "exit" /\ exitCode' = 1
                ELSE /\ exitCode' = exitCode
                     /\ IF r.ret = <<>>
                        THEN pidx' = pidx + 1 /\ pc' = "loop"
                        ELSE pidx' = pidx /\ pc' = "env"
    /\ UNCHANGED <<args, projects, lookup, helperVars>>

\* Top of the loop body: the group name is read, the production environments
\* are selected, and a project without any is skipped.
SelectEnvironments ==
    /\ pc = "loop"
    /\ pidx <= Len(projects)
    /\ \E resp \in EnvResponses(RunEnvNames, MaxEnvs - envsSeen) :
         LET r == get_production_environments(resp)
         IN  /\ envsSeen' = envsSeen + Len(resp.list)
             /\ prod_envs' = r.ret
             /\ out' = out \o r.out
             /\ env_data' = <<>>
             /\ outcome' = <<>>
             /\ matched' = Append(matched, Len(r.ret))
             /\ eidx' = 1
             /\ IF r.ret = <<>>
                THEN pidx' = pidx + 1 /\ pc' = "loop"
                ELSE pidx' = pidx /\ pc' = "env"
    /\ UNCHANGED <<args, projects, lookup, exitCode, helperVars>>

\* One iteration of the inner loop: env_data.append(get_deployment_info(...))
DeploymentInfo ==
    /\ pc = "env"
    /\ eidx <= Len(prod_envs)
    /\ \E dresp \in DeployResponses :
       \E tresp \in IF dresp.last_deployment.some
                    THEN SearchResponses(dresp.last_deployment.ref)
                    ELSE {NoSearch} :
         LET r == get_deployment_info(prod_envs[eidx], dresp, tresp)
         IN  /\ env_data' = Append(env_data, r.ret)
             /\ outcome' = Append(outcome, r.how)
             /\ lookup' = r.calls
             /\ out' = out \o r.out
    /\ eidx' = eidx + 1
    /\ pc' = IF eidx + 1 > Len(prod_envs) THEN "row" ELSE "env"
    /\ UNCHANGED <<args, projects, pidx, prod_envs, matched, exitCode, envsSeen, helperVars>>

\* group = project.namespace['name'] if ... else ""
GroupOf(project) == IF project.namespace.some THEN project.namespace.val ELSE <<>>

\* if env_data: print(format_csv_row(group, project.name, env_data))
PrintRow ==
    /\ pc = "row"
    /\ LET project == projects[pidx]
           group == GroupOf(project)
       IN  out' = IF env_data # <<>>
                  THEN Append(out, RowLine(format_csv_row(group, project.name, env_data)))
                  ELSE out
    /\ pidx' = pidx + 1
    /\ pc' = "loop"
    /\ UNCHANGED <<args, projects, prod_envs, eidx, env_data,
                   lookup, outcome, matched, exitCode, envsSeen, helperVars>>

\* The loop is exhausted and main returns: the interpreter exits with 0.
Finish ==
    /\ pc = "loop"
    /\ pidx > Len(projects)
    /\ pc' = "done"
    /\ exitCode' = 0
    /\ UNCHANGED <<args, projects, pidx, prod_envs, eidx, env_data,
                   lookup, outcome, matched, out, envsSeen, helperVars>>

Next ==
    \/ Connect
    \/ ConnectFails
    \/ PrintHeader
    \/ GetProject
    \/ GetProjectFails
    \/ GetAllProjects
    \/ GetAllProjectsFails
    \/ SelectEnvironments
    \/ DeploymentInfo
    \/ PrintRow
    \/ Finish

Spec == Init /\ [][Next]_vars

\* ---------------------------------------------------------------- the helpers alone
Idle ==
    /\ args = [project |-> FALSE, tag |-> None]
    /\ projects = <<>>
    /\ pidx = 1
    /\ prod_envs = <<>>
    /\ eidx = 1
    /\ env_data = <<>>
    /\ lookup = NoLookup
    /\ outcome = <<>>
    /\ matched = <<>>
    /\ out = <<>>
    /\ exitCode = -1
    /\ envsSeen = 0

\* get_production_environments is called on any listing of a project
SelectInit ==
    /\ Idle
    /\ pc = "select"
    /\ environments \in EnvResponses(EnvNames, MaxListing)
    /\ tag_name = <<>>
    /\ tags = [kind |-> Ok, list |-> <<>>]
    /\ tag_created_at = None

Select ==
    /\ pc = "select"
    /\ LET r == get_production_environments(environments)
       IN  /\ prod_envs' = r.ret
           /\ out' = out \o r.out
    /\ pc' = "selected"
    /\ UNCHANGED <<args, projects, pidx, eidx, env_data, lookup, outcome, matched,
                   exitCode, envsSeen, helperVars>>

SelectSpec == SelectInit /\ [][Select]_vars

\* get_tag_creation_date is called with any reference on any search answer
TagInit ==
    /\ Idle
    /\ pc = "tag"
    /\ environments = [kind |-> Ok, list |-> <<>>]
    /\ tag_name \in Refs
    /\ tags \in TagResponses
    /\ tag_created_at = None

TagLookup ==
    /\ pc = "tag"
    /\ LET r == get_tag_creation_date(tags, tag_name)
       IN  /\ tag_created_at' = r.ret
           /\ out' = out \o r.out
    /\ pc' = "tagged"
    /\ UNCHANGED <<args, projects, pidx, prod_envs, eidx, env_data, lookup, outcome, matched,
                   exitCode, envsSeen, environments, tag_name, tags>>

TagSpec == TagInit /\ [][TagLookup]_vars

\* The run is sequential and every call returns or raises: main always takes
\* its next step.
FairSpec == Spec /\ WF_vars(Next)

\* ---------------------------------------------------------------- reading the output back
\* The fields of a printed line: the text split at every comma.
RECURSIVE Split(_)
Split(s) ==
    IF \A i \in 1..Len(s) : s[i] # ","
    THEN <<s>>
    ELSE LET k == CHOOSE i \in 1..Len(s) : s[i] = "," /\ \A j \in 1..(i - 1) : s[j] # ","
         IN  <<SubSeq(s, 1, k - 1)>> \o Split(SubSeq(s, k + 1, Len(s)))

IsRow(line) == line.kind = "row"
Rows == SelectSeq(out, IsRow)
Last(s) == s[Len(s)]
Range(s) == { s[i] : i \in 1..Len(s) }

\* The projects whose loop iteration is over, and those of them with a match.
Completed == { i \in 1..Len(matched) : i < pidx }
WithMatch == { i \in Completed : matched[i] >= 1 }
\* The project the j-th data row belongs to: the j-th project with a match.
RowOwner(j) == CHOOSE i \in WithMatch : Cardinality({ h \in WithMatch : h <= i }) = j
\* The row of the current project has just been printed.
RowJustPrinted == pc \in {"loop", "done"} /\ env_data # <<>>

\* ---------------------------------------------------------------- C1
\* The lower-cased name contains "production", said character by character.
NameHasProduction(n) ==
    \E k \in 0..(Len(n) - 10) : \A i \in 1..10 : LowerChar(n[k + i]) = PRODUCTION[i]

\* C1: when the listing of a project succeeds, get_production_environments
\* returns every environment whose lower-cased name contains "production" and
\* no other one, each exactly once and in the order of the listing.
C1_SelectsExactlyProduction ==
    (pc = "selected" /\ environments.kind = Ok) =>
        /\ \A i \in 1..Len(environments.list) :
              Cardinality({ j \in 1..Len(prod_envs) : prod_envs[j] = environments.list[i] })
                = IF NameHasProduction(environments.list[i].name) THEN 1 ELSE 0
        /\ \A j \in 1..Len(prod_envs) : prod_envs[j] \in Range(environments.list)
        /\ \A j, k \in 1..Len(prod_envs) : j < k => prod_envs[j].id < prod_envs[k].id

\* A listing of three environments, the first and the last selected, one of
\* them through an upper-case name, the middle one left out.
C1_Witness ==
    /\ pc = "selected"
    /\ environments.kind = Ok
    /\ Len(environments.list) = 3
    /\ Len(prod_envs) = 2
    /\ prod_envs[1].id = 1
    /\ prod_envs[2].id = 3
    /\ \E j \in 1..2 : prod_envs[j].name # Lower(prod_envs[j].name)

\* ---------------------------------------------------------------- C2
\* C2: the data rows are exactly one per completed project with at least one
\* matched environment, none for a project with zero; the row of a project with
\* k matched environments has 2 + 3*k fields, the group and project name first.
C2_OneRowPerMatchedProject ==
    /\ Len(Rows) = Cardinality(WithMatch)
    /\ \A j \in 1..Len(Rows) :
          LET fields == Split(Rows[j].text)
              i == RowOwner(j)
          IN  /\ Len(fields) = 2 + 3 * matched[i]
              /\ fields[1] = GroupOf(projects[i])
              /\ fields[2] = projects[i].name

\* A completed run over two projects, the first without a match and without a
\* row, the second with two matched environments and a row of 8 fields.
C2_Witness ==
    /\ pc = "done"
    /\ matched = <<0, 2>>
    /\ Len(Rows) = 1
    /\ Len(Split(Rows[1].text)) = 8

\* ---------------------------------------------------------------- C3
\* C3 as stated: whatever is printed first in a run is the header line.
C3_HeaderAlwaysFirst == out # <<>> => out[1] = HeaderLine

\* C3 amended: in every run whose connection succeeds the header is the first
\* line printed, exactly once, whether or not a row follows; when the
\* connection fails the error message is the only line and no header is printed.
C3_HeaderFirstOnceConnected ==
    /\ (out # <<>> /\ out[1] # HeaderLine) => (pc = "exit" /\ out = <<ErrorLine("connect")>>)
    /\ pc \in {"resolve", "loop", "env", "row", "done"} =>
          /\ out # <<>>
          /\ out[1] = HeaderLine
          /\ \A i \in 2..Len(out) : out[i] # HeaderLine

\* A completed run over a project that printed nothing but the header and a notice.
C3_Witness ==
    /\ pc = "done"
    /\ Len(projects) >= 1
    /\ Rows = <<>>
    /\ out[1] = HeaderLine
    /\ Len(out) >= 2

\* ---------------------------------------------------------------- C4
FatalLines == { ErrorLine("connect"), ErrorLine("project"), ErrorLine("projects") }
Ended == pc \in {"done", "exit"}

\* C4 as stated: exit 0 when the pipeline completes, non-zero on authentication
\* failure and project-not-found, and non-zero when --project names a single
\* project for which no production environment is found.
C4_ExitStatusAsStated ==
    /\ (pc = "done" /\ ~(args.project /\ NoticeLine \in Range(out))) => exitCode = 0
    /\ (Ended /\ Range(out) \cap FatalLines # {}) => exitCode # 0
    /\ (Ended /\ args.project /\ NoticeLine \in Range(out)) => exitCode # 0

\* C4 amended: a run ends with exit code 0 exactly when the pipeline completes,
\* which includes the run where --project names a project without production
\* environment (a notice, no row); it ends with a non-zero code exactly on a
\* failure to connect, to get the project or to list the projects.
C4_ExitStatus ==
    /\ pc = "done" => (exitCode = 0 /\ Range(out) \cap FatalLines = {})
    /\ pc = "exit" => (exitCode = 1 /\ Last(out) \in FatalLines)
    /\ ~Ended => (exitCode = -1 /\ Range(out) \cap FatalLines = {})
    /\ (pc = "done" /\ args.project) => Len(matched) = 1

\* --project given, no production environment found, exit code 0.
C4_Witness ==
    /\ pc = "done"
    /\ args.project
    /\ matched = <<0>>
    /\ NoticeLine \in Range(out)
    /\ exitCode = 0

\* ---------------------------------------------------------------- C5
RetrievalErrors ==
    { ErrorLine("environments"), ErrorLine("last deployment"), ErrorLine("tag") }

\* C5: a failure to retrieve the environments, the last deployment or the tag
\* never aborts the run: every matched environment of the project still gets
\* its triple, and the run completes with exit code 0 after the loop has
\* entered every project of the list.
C5_RetrievalFailureNonFatal ==
    /\ [](pc = "row" => Len(env_data) = Len(prod_envs))
    /\ [](Range(out) \cap RetrievalErrors # {} => pc # "exit")
    /\ (Range(out) \cap RetrievalErrors # {})
          ~> (pc = "done" /\ exitCode = 0 /\ Len(matched) = Len(projects))

\* A completed run in which a retrieval failed and a row was printed later.
C5_Witness ==
    /\ pc = "done"
    /\ Len(matched) = Len(projects)
    /\ \E i, j \in 1..Len(out) : i < j /\ out[i] \in RetrievalErrors /\ IsRow(out[j])

\* ---------------------------------------------------------------- C6
Empty == <<>>

C7_ExactNameOnly ==
    (pc = "tagged" /\ tags.kind = Ok) =>
        LET exact == { i \in 1..Len(tags.list) : tags.list[i].name = tag_name }
        IN  /\ exact = {} => tag_created_at = None
            /\ exact # {} => \E i \in exact : tag_created_at = tags.list[i].commit
            /\ tag_created_at.some =>
                  \E i \in exact : tags.list[i].commit = Some(tag_created_at.val)

\* The search for v1 answers v10 first and v1 second: the timestamp is v1's.
C7_Witness ==
    /\ pc = "tagged"
    /\ tags.kind = Ok
    /\ tag_name = <<"v","1">>
    /\ Len(tags.list) = 2
    /\ tags.list[1].name = <<"v","1","0">>
    /\ tags.list[2].name = <<"v","1">>
    /\ tag_created_at = Some(<<"t","1">>)

\* ---------------------------------------------------------------- C8
IsWarning(line) == line.kind = "warning"

\* C8: a run given a --tag that is not of the form v<major>.<minor>.<patch>
\* emits a warning (and nothing else changes).
C8_MalformedTagWarns ==
    (pc = "done" /\ args.tag.some /\ ~is_valid_tag_format(args.tag.val)) =>
        \E i \in 1..Len(out) : IsWarning(out[i])

\* ---------------------------------------------------------------- C9
\* C9: the data rows follow the order of the project list, the j-th row being
\* the row of the j-th project with a match; inside the row just printed the
\* triples follow the order of the matched environments, which is the order of
\* the listing, each triple being its own environment's.
C9_OrderPreserved ==
    /\ \A j \in 1..Len(Rows) :
          LET fields == Split(Rows[j].text)
          IN  <<fields[1], fields[2]>> =
                 <<GroupOf(projects[RowOwner(j)]), projects[RowOwner(j)].name>>
    /\ \A j, k \in 1..Len(Rows) : j < k => RowOwner(j) < RowOwner(k)
    /\ \A j, k \in 1..Len(prod_envs) : j < k => prod_envs[j].id < prod_envs[k].id
    /\ \A i \in 1..Len(env_data) : env_data[i].env_name = prod_envs[i].name
    /\ (pc \in {"env", "row"} /\ env_data # <<>> /\ lookup.dep.last_deployment.some) =>
          Last(env_data).deploy_created_at = lookup.dep.last_deployment.created_at
    /\ RowJustPrinted =>
          LET fields == Split(Last(out).text)
          IN  \A i \in 1..Len(env_data) :
                 <<fields[3 * i], fields[3 * i + 1], fields[3 * i + 2]>> =
                    <<prod_envs[i].name, env_data[i].deploy_created_at,
                      env_data[i].tag_created_at>>

\* Two rows of two projects, in list order.
C9_WitnessRows ==
    /\ pc = "done"
    /\ Len(projects) = 2
    /\ Len(Rows) = 2
    /\ Split(Rows[1].text)[2] = projects[1].name
    /\ Split(Rows[2].text)[2] = projects[2].name

\* ---------------------------------------------------------------- C10
\* C10: get_deployment_info issues the tag lookup only once a last deployment
\* was obtained, and with that deployment's ref as it is; no lookup is made
\* for an environment without deployment, and in every triple a non-empty tag
\* timestamp comes with a non-empty deploy timestamp.
C10_LookupOnlyAfterDeployment ==
    /\ lookup.issued =>
          /\ lookup.dep.kind = Ok
          /\ lookup.dep.last_deployment.some
          /\ lookup.tag_name = lookup.dep.last_deployment.ref
    /\ ~lookup.dep.last_deployment.some => ~lookup.issued
    /\ lookup.dep.kind = Error => ~lookup.issued
    /\ \A i \in 1..Len(env_data) :
          env_data[i].tag_created_at # Empty => env_data[i].deploy_created_at # Empty

\* A lookup made with the ref v2 of the deployment obtained, which found the tag.
C10_Witness ==
    /\ lookup.issued
    /\ lookup.tag_name = <<"v","2">>
    /\ env_data # <<>>
    /\ Last(env_data).tag_created_at = <<"t","2">>
    /\ Last(env_data).deploy_created_at # Empty

====
